---------------------------- MODULE Spec2Model ----------------------------
(***************************************************************************)
(* M3ED RMSE reporting pipeline.                                           *)
(*                                                                         *)
(*   extract_m3ed_rmse.py          (the Extractor): results directory ->   *)
(*                                  m3ed_rmse.csv                          *)
(*   generate_comparison_tables.py (the Reporter):  m3ed_rmse.csv ->       *)
(*                                  one HTML table per group + index.html  *)
(*                                                                         *)
(* Text (directory names, file contents, CSV cells) is a sequence of       *)
(* one-character strings.  An RMSE value is an exact decimal, held as an   *)
(* integer number of 1/Scale (Scale = 10^5); the inputs drawn below have   *)
(* at most four fractional digits, so every median the code computes is    *)
(* on that grid.  Binary floating-point rounding is not modelled.          *)
(***************************************************************************)
EXTENDS Integers, Sequences, FiniteSets, TLC

VARIABLES
    fs,           \* results directory: entry name -> content of its results.txt, or Missing
    pc,           \* position of the run (Extractor, then Reporter)
    err,          \* per script, the unhandled exception that ended it, or "none"
    dirs,         \* scan_results: sorted glob result
    i,            \* scan_results: index of the next directory in dirs
    results,      \* scan_results: rows collected so far
    df,           \* Extractor: the DataFrame of line 65, reordered by line 71
    csv,          \* the file m3ed_rmse.csv: [exists, columns, rows] of text cells
    stdout,       \* what both scripts printed
    rdf,          \* Reporter: its DataFrame (name, rmse_median, sequence, variant)
    pivot_df,     \* Reporter: [index, columns, cell]
    sequences,    \* Reporter: sorted(pivot_df.index)
    g,            \* Reporter: index of the next entry of tables_config
    files,        \* output directory: filename -> the table written there
    pct_changes,  \* generate_table_html: pct_changes of the latest call
    tables_list,  \* Reporter: tables_list
    index_html    \* the file index.html: [exists, cards]

vars == <<fs, pc, err, dirs, i, results, df, csv, stdout, rdf, pivot_df,
          sequences, g, files, pct_changes, tables_list, index_html>>

extractor_vars == <<dirs, i, results, df>>
reporter_vars == <<rdf, pivot_df, sequences, g, files, pct_changes, tables_list, index_html>>

---------------------------------------------------------------------------
(* Numbers *)

Scale == 10 * 10 * 10 * 10 * 10

\* np.nan: the absent cell of a DataFrame (every RMSE value is >= 0)
NaN == 0 - 1

\* None, as parse_name returns it
None == <<"None">>

\* os.path.exists(filepath) is false
Missing == <<"no results.txt">>

---------------------------------------------------------------------------
(* Text *)

Digits == <<"0","1","2","3","4","5","6","7","8","9">>

LowerCase == <<"a","b","c","d","e","f","g","h","i","j","k","l","m",
               "n","o","p","q","r","s","t","u","v","w","x","y","z">>

UpperCase == <<"A","B","C","D","E","F","G","H","I","J","K","L","M",
               "N","O","P","Q","R","S","T","U","V","W","X","Y","Z">>

\* the characters in code-point order, which is the order sorted() compares by
CodeOrder == <<"\t", "\n", " ", "%", "+", "-", ".">> \o Digits \o UpperCase \o <<"_">> \o LowerCase

Range(s) == {s[k] : k \in DOMAIN s}

IndexOf(s, c) == CHOOSE k \in DOMAIN s : s[k] = c

Ord(c) == IndexOf(CodeOrder, c)

IsDigit(c) == c \in Range(Digits)

DigitVal(c) == IndexOf(Digits, c) - 1

\* str.lower / str.upper on one character
Lower(c) == IF c \in Range(UpperCase) THEN LowerCase[IndexOf(UpperCase, c)] ELSE c

Upper(c) == IF c \in Range(LowerCase) THEN UpperCase[IndexOf(LowerCase, c)] ELSE c

IsAlpha(c) == c \in Range(LowerCase) \cup Range(UpperCase)

\* str.startswith / str.endswith
startswith(s, p) == Len(p) <= Len(s) /\ SubSeq(s, 1, Len(p)) = p

endswith(s, p) == Len(p) <= Len(s) /\ SubSeq(s, Len(s) - Len(p) + 1, Len(s)) = p

\* s < t for Python strings
RECURSIVE StrLess(_, _)
StrLess(s, t) ==
    IF s = <<>> THEN t # <<>>
    ELSE IF t = <<>> THEN FALSE
    ELSE IF Head(s) = Head(t) THEN StrLess(Tail(s), Tail(t))
    ELSE Ord(Head(s)) < Ord(Head(t))

\* sorted() of a set of distinct strings
RECURSIVE SortedStrings(_)
SortedStrings(S) ==
    IF S = {} THEN <<>>
    ELSE LET m == CHOOSE x \in S : \A y \in S \ {x} : StrLess(x, y)
         IN  <<m>> \o SortedStrings(S \ {m})

\* sorted() of a sequence of numbers
RECURSIVE Insert(_, _)
Insert(x, s) ==
    IF s = <<>> THEN <<x>>
    ELSE IF x <= Head(s) THEN <<x>> \o s
    ELSE <<Head(s)>> \o Insert(x, Tail(s))

RECURSIVE SortedNums(_)
SortedNums(s) == IF s = <<>> THEN <<>> ELSE Insert(Head(s), SortedNums(Tail(s)))

RECURSIVE Sum(_)
Sum(s) == IF s = <<>> THEN 0 ELSE Head(s) + Sum(Tail(s))

---------------------------------------------------------------------------
(* float(): a token of [\d.]+ to a number of 1/Scale, or ValueError *)

RECURSIVE CountDots(_)
CountDots(t) ==
    IF t = <<>> THEN 0 ELSE (IF Head(t) = "." THEN 1 ELSE 0) + CountDots(Tail(t))

RECURSIVE DigitsToInt(_)
DigitsToInt(t) ==
    IF t = <<>> THEN 0 ELSE DigitsToInt(SubSeq(t, 1, Len(t) - 1)) * 10 + DigitVal(t[Len(t)])

RECURSIVE Pow10(_)
Pow10(n) == IF n = 0 THEN 1 ELSE 10 * Pow10(n - 1)

\* the fractional digits f as a number of 1/Scale (digits past the fifth are
\* beyond the grid and dropped; the inputs drawn have none)
FracToUnits(f) ==
    LET d == IF Len(f) > 5 THEN SubSeq(f, 1, 5) ELSE f
    IN  DigitsToInt(d) * Pow10(5 - Len(d))

float(t) ==
    IF CountDots(t) > 1 \/ \A k \in DOMAIN t : t[k] = "."
    THEN [ok |-> FALSE, val |-> NaN]
    ELSE IF CountDots(t) = 0
    THEN [ok |-> TRUE, val |-> DigitsToInt(t) * Scale]
    ELSE LET d == IndexOf(t, ".")
         IN  [ok |-> TRUE,
              val |-> DigitsToInt(SubSeq(t, 1, d - 1)) * Scale
                      + FracToUnits(SubSeq(t, d + 1, Len(t)))]

---------------------------------------------------------------------------
(* re.findall(r'rmse\s+([\d.]+)', content, re.IGNORECASE) *)

IsSpace(c) == c \in {" ", "\t", "\n"}

IsNumChar(c) == IsDigit(c) \/ c = "."

RECURSIVE SkipSpace(_, _)
SkipSpace(s, k) == IF k <= Len(s) /\ IsSpace(s[k]) THEN SkipSpace(s, k + 1) ELSE k

RECURSIVE SkipNum(_, _)
SkipNum(s, k) == IF k <= Len(s) /\ IsNumChar(s[k]) THEN SkipNum(s, k + 1) ELSE k

\* a match starting at k: <<first, last + 1>> of its group 1, or <<>>
MatchAt(s, k) ==
    IF k + 4 <= Len(s)
       /\ Lower(s[k]) = "r" /\ Lower(s[k + 1]) = "m"
       /\ Lower(s[k + 2]) = "s" /\ Lower(s[k + 3]) = "e"
       /\ IsSpace(s[k + 4])
    THEN LET a == SkipSpace(s, k + 4)
             b == SkipNum(s, a)
         IN  IF b > a THEN <<a, b>> ELSE <<>>
    ELSE <<>>

RECURSIVE findall(_, _)
findall(s, k) ==
    IF k > Len(s) THEN <<>>
    ELSE LET m == MatchAt(s, k)
         IN  IF m # <<>>
             THEN <<SubSeq(s, m[1], m[2] - 1)>> \o findall(s, m[2])
             ELSE findall(s, k + 1)

\* [float(r) for r in rmse_matches]: raises at the first token float() rejects
Floats(tokens) ==
    IF \E k \in DOMAIN tokens : ~float(tokens[k]).ok
    THEN [raised |-> TRUE, values |-> <<>>]
    ELSE [raised |-> FALSE, values |-> [k \in DOMAIN tokens |-> float(tokens[k]).val]]

\* parse_results_file: values is <<>> where the code returns None
parse_results_file(content) ==
    IF content = Missing
    THEN [raised |-> FALSE, values |-> <<>>]
    ELSE Floats(findall(content, 1))

---------------------------------------------------------------------------
(* Numbers to text: str(int), and repr(float) as to_csv writes it *)

RECURSIVE IntToText(_)
IntToText(n) ==
    IF n < 10 THEN <<Digits[n + 1]>>
    ELSE IntToText(n \div 10) \o <<Digits[(n % 10) + 1]>>

\* n as exactly w digits
RECURSIVE Padded(_, _)
Padded(n, w) == IF w = 0 THEN <<>> ELSE Padded(n \div 10, w - 1) \o <<Digits[(n % 10) + 1]>>

RECURSIVE StripZeros(_)
StripZeros(t) ==
    IF Len(t) > 1 /\ t[Len(t)] = "0" THEN StripZeros(SubSeq(t, 1, Len(t) - 1)) ELSE t

\* the shortest decimal that reads back as the value; the empty cell for NaN
Repr(v) ==
    IF v = NaN THEN <<>>
    ELSE IntToText(v \div Scale) \o <<".">> \o StripZeros(Padded(v % Scale, 5))

---------------------------------------------------------------------------
(* Extractor: extract_m3ed_rmse.py *)

T_name == <<"n","a","m","e">>
T_num_runs == <<"n","u","m","_","r","u","n","s">>
T_rmse_mean == <<"r","m","s","e","_","m","e","a","n">>
T_rmse_median == <<"r","m","s","e","_","m","e","d","i","a","n">>
T_rmse_min == <<"r","m","s","e","_","m","i","n">>
T_rmse_max == <<"r","m","s","e","_","m","a","x">>
T_rmse_last == <<"r","m","s","e","_","l","a","s","t">>
T_run_ == <<"r","u","n","_">>
T_spot_ == <<"s","p","o","t","_">>

base_cols == <<T_name, T_num_runs, T_rmse_mean, T_rmse_median, T_rmse_min, T_rmse_max, T_rmse_last>>

\* np.mean, to the nearest 1/Scale (nothing below reads rmse_mean)
np_mean(v) == (2 * Sum(v) + Len(v)) \div (2 * Len(v))

\* np.median gone wrong: the upper middle value for an even count
np_median_upper(v) == SortedNums(v)[Len(v) \div 2 + 1]

\* np.median: the middle of the sorted values, the mean of the two middle ones
np_median(v) ==
    LET s == SortedNums(v)
        n == Len(v)
    IN  IF n % 2 = 1 THEN s[(n + 1) \div 2] ELSE (s[n \div 2] + s[n \div 2 + 1]) \div 2

np_min(v) == SortedNums(v)[1]

np_max(v) == SortedNums(v)[Len(v)]

\* the row dict of lines 41-52; runs[k] is the value of key run_k
Row(dirname, rmse_values) ==
    [name |-> dirname,
     num_runs |-> Len(rmse_values),
     rmse_mean |-> np_mean(rmse_values),
     rmse_median |-> np_median(rmse_values),
     rmse_min |-> np_min(rmse_values),
     rmse_max |-> np_max(rmse_values),
     rmse_last |-> rmse_values[Len(rmse_values)],
     runs |-> rmse_values]

\* glob.glob(os.path.join(base_dir, 'spot_*')), sorted
Glob(dir) == SortedStrings({d \in DOMAIN dir : startswith(d, T_spot_)})

\* line 61 and line 33
StartScan ==
    /\ pc = "start"
    /\ dirs' = Glob(fs)
    /\ i' = 1
    /\ results' = <<>>
    /\ stdout' = Append(stdout, <<"scanning", <<>>>>)
    /\ pc' = "scan"
    /\ UNCHANGED <<fs, err, df, csv>>
    /\ UNCHANGED reporter_vars

\* one iteration of the loop of lines 35-56
ScanDir ==
    /\ pc = "scan"
    /\ i <= Len(dirs)
    /\ LET dirname == dirs[i]
           parsed == parse_results_file(fs[dirname])
       IN  IF parsed.raised
           THEN /\ pc' = "extractor failed"
                /\ err' = [err EXCEPT !.extractor = "ValueError"]
                /\ UNCHANGED <<i, results, stdout>>
           ELSE /\ i' = i + 1
                /\ UNCHANGED <<pc, err>>
                /\ IF parsed.values # <<>>
                   THEN /\ results' = Append(results, Row(dirname, parsed.values))
                        /\ stdout' = Append(stdout, <<"found", dirname>>)
                   ELSE /\ results' = results
                        /\ stdout' = Append(stdout, <<"no data", dirname>>)
    /\ UNCHANGED <<fs, dirs, df, csv>>
    /\ UNCHANGED reporter_vars

RECURSIVE MaxRuns(_)
MaxRuns(rows) ==
    IF rows = <<>> THEN 0
    ELSE LET m == MaxRuns(Tail(rows))
         IN  IF Head(rows).num_runs > m THEN Head(rows).num_runs ELSE m

\* the columns pd.DataFrame(results) gets: the keys in first-seen order
FrameColumns(rows) == base_cols \o [k \in 1..MaxRuns(rows) |-> T_run_ \o IntToText(k)]

\* int(x.split('_')[1]) of a run column
RunIndex(c) == DigitsToInt(SubSeq(c, Len(T_run_) + 1, Len(c)))

RECURSIVE InsertRunCol(_, _)
InsertRunCol(c, s) ==
    IF s = <<>> THEN <<c>>
    ELSE IF RunIndex(c) < RunIndex(Head(s)) THEN <<c>> \o s
    ELSE <<Head(s)>> \o InsertRunCol(c, Tail(s))

RECURSIVE SortedRunCols(_)
SortedRunCols(s) ==
    IF s = <<>> THEN <<>> ELSE InsertRunCol(Head(s), SortedRunCols(Tail(s)))

\* a row with its run columns padded to n with NaN
PadRuns(row, n) ==
    [row EXCEPT !.runs = [k \in 1..n |-> IF k <= Len(row.runs) THEN row.runs[k] ELSE NaN]]

\* lines 65-71: pd.DataFrame(results), then df[base_cols + run_cols];
\* a frame made from no rows has no column to select, and line 71 raises
CreateFrame ==
    /\ pc = "scan"
    /\ i > Len(dirs)
    /\ IF results = <<>>
       THEN /\ pc' = "extractor failed"
            /\ err' = [err EXCEPT !.extractor = "KeyError"]
            /\ df' = [columns |-> <<>>, rows |-> <<>>]
       ELSE /\ LET cols == FrameColumns(results)
                   run_cols == SortedRunCols(SelectSeq(cols, LAMBDA c : startswith(c, T_run_)))
               IN  df' = [columns |-> base_cols \o run_cols,
                          rows |-> [k \in DOMAIN results |-> PadRuns(results[k], Len(run_cols))]]
            /\ pc' = "to_csv"
            /\ err' = err
    /\ UNCHANGED <<fs, dirs, i, results, csv, stdout>>
    /\ UNCHANGED reporter_vars

\* the text cells of one row, in the order of df.columns
CsvRow(row) ==
    <<row.name, IntToText(row.num_runs), Repr(row.rmse_mean), Repr(row.rmse_median),
      Repr(row.rmse_min), Repr(row.rmse_max), Repr(row.rmse_last)>>
    \o [k \in DOMAIN row.runs |-> Repr(row.runs[k])]

\* df.to_csv(output_path, index=False)
to_csv(frame) ==
    [exists |-> TRUE,
     columns |-> frame.columns,
     rows |-> [k \in DOMAIN frame.rows |-> CsvRow(frame.rows[k])]]

\* lines 74-80
SaveCsv ==
    /\ pc = "to_csv"
    /\ csv' = to_csv(df)
    /\ stdout' = Append(stdout, <<"saved", IntToText(Len(df.rows))>>)
    /\ pc' = "extractor done"
    /\ UNCHANGED <<fs, err, dirs, i, results, df>>
    /\ UNCHANGED reporter_vars

---------------------------------------------------------------------------
(* Reporter: generate_comparison_tables.py *)

T_sequence == <<"s","e","q","u","e","n","c","e">>
T_variant == <<"v","a","r","i","a","n","t">>

W_daac == <<"d","a","a","c">>
W_depth == <<"d","e","p","t","h">>
W_opt == <<"o","p","t">>
W_log == <<"l","o","g">>
W_mahalanobis == <<"m","a","h","a","l","a","n","o","b","i","s">>
W_rgd == <<"r","g","d">>
W_inv == <<"i","n","v">>
W_metric == <<"m","e","t","r","i","c">>
W_base == <<"b","a","s","e">>
W_w30 == <<"w","3","0">>
W_w50 == <<"w","5","0">>
W_w100 == <<"w","1","0","0">>
W_w500 == <<"w","5","0","0">>
W_w1000 == <<"w","1","0","0","0">>

\* '_' + '_'.join(words)
RECURSIVE Marker(_)
Marker(words) == IF words = <<>> THEN <<>> ELSE <<"_">> \o Head(words) \o Marker(Tail(words))

\* variant_markers of lines 19-32, in the order the loop of line 34 tries them
variant_markers ==
    << Marker(<<W_daac, W_depth, W_opt, W_log, W_mahalanobis, W_w50>>),
       Marker(<<W_daac, W_depth, W_opt, W_log, W_mahalanobis, W_w30>>),
       Marker(<<W_daac, W_depth, W_opt, W_mahalanobis, W_w1000>>),
       Marker(<<W_daac, W_depth, W_opt, W_mahalanobis, W_w500>>),
       Marker(<<W_daac, W_depth, W_opt, W_mahalanobis, W_w100>>),
       Marker(<<W_daac, W_depth, W_opt, W_log, W_w100>>),
       Marker(<<W_daac, W_depth, W_opt, W_w1000>>),
       Marker(<<W_daac, W_depth, W_opt, W_w500>>),
       Marker(<<W_daac, W_depth, W_opt, W_w100>>),
       Marker(<<W_daac, W_rgd, W_inv>>),
       Marker(<<W_daac, W_rgd, W_metric>>),
       Marker(<<W_base>>) >>

\* the loop of lines 34-39 from marker k on
RECURSIVE FirstMarker(_, _)
FirstMarker(name, k) ==
    IF k > Len(variant_markers) THEN <<None, None>>
    ELSE LET marker == variant_markers[k]
         IN  IF endswith(name, marker)
             THEN <<SubSeq(name, 1, Len(name) - Len(marker)), Tail(marker)>>
             ELSE FirstMarker(name, k + 1)

\* parse_name gone wrong: the sequence cut by len(variant), not len(marker)
parse_name_short_cut(name) ==
    LET key == FirstMarker(name, 1)
    IN  IF key[2] = None THEN key
        ELSE <<SubSeq(name, 1, Len(name) - Len(key[2])), key[2]>>

\* parse_name(name): <<sequence, variant>>
parse_name(name) == FirstMarker(name, 1)

\* OUTLIER_THRESHOLD = 10.0
OUTLIER_THRESHOLD == 10 * Scale

\* pd.isna / pd.notna
isna(v) == v = NaN

notna(v) == v # NaN

\* a column of tables_config
Col(words) == Tail(Marker(words))

C_base == Col(<<W_base>>)
C_w100 == Col(<<W_daac, W_depth, W_opt, W_w100>>)
C_w500 == Col(<<W_daac, W_depth, W_opt, W_w500>>)
C_w1000 == Col(<<W_daac, W_depth, W_opt, W_w1000>>)
C_log_w100 == Col(<<W_daac, W_depth, W_opt, W_log, W_w100>>)
C_mahal_w100 == Col(<<W_daac, W_depth, W_opt, W_mahalanobis, W_w100>>)
C_mahal_w500 == Col(<<W_daac, W_depth, W_opt, W_mahalanobis, W_w500>>)
C_mahal_w1000 == Col(<<W_daac, W_depth, W_opt, W_mahalanobis, W_w1000>>)
C_log_mahal_w30 == Col(<<W_daac, W_depth, W_opt, W_log, W_mahalanobis, W_w30>>)
C_rgd_inv == Col(<<W_daac, W_rgd, W_inv>>)
C_rgd_metric == Col(<<W_daac, W_rgd, W_metric>>)

\* tables_config of lines 331-368 (titles, filenames and descriptions are
\* only copied into the pages)
tables_config ==
    << [title |-> "Baseline vs Depth Optimization (and Log Opt)",
        columns |-> <<C_base, C_w100, C_w500, C_w1000, C_log_w100>>,
        filename |-> "baseline_vs_depth_opt.html",
        description |-> "Comparison of baseline with depth optimization variants (w100, w500, w1000) and log optimization."],
       [title |-> "Baseline vs RGD (Inverse + Metric)",
        columns |-> <<C_base, C_rgd_inv, C_rgd_metric>>,
        filename |-> "baseline_vs_rgd.html",
        description |-> "Comparison of baseline with inverse depth RGD and metric RGD variants."],
       [title |-> "Baseline vs Mahalanobis Optimization",
        columns |-> <<C_base, C_mahal_w100, C_mahal_w500, C_mahal_w1000, C_log_mahal_w30>>,
        filename |-> "baseline_vs_mahal.html",
        description |-> "Comparison of baseline with Mahalanobis depth optimization variants."],
       [title |-> "Depth Opt vs Mahalanobis Opt",
        columns |-> <<C_base, C_w100, C_mahal_w100, C_w500, C_mahal_w500, C_w1000, C_mahal_w1000>>,
        filename |-> "depth_opt_vs_mahal.html",
        description |-> "Side-by-side comparison of regular depth optimization vs Mahalanobis optimization."],
       [title |-> "Baseline vs All Variants",
        columns |-> <<C_base, C_w100, C_w500, C_w1000, C_log_w100, C_mahal_w100, C_mahal_w500,
                      C_mahal_w1000, C_log_mahal_w30, C_rgd_inv, C_rgd_metric>>,
        filename |-> "baseline_vs_all.html",
        description |-> "Comparison of baseline with all available variants."] >>

---------------------------------------------------------------------------
(* Exact quotients: a percent change is num/den in lowest terms with       *)
(* den > 0; den = 0 is what IEEE division by zero gives: +inf (num = 1),   *)
(* -inf (num = -1) or nan (num = 0)                                        *)

Abs(n) == IF n < 0 THEN 0 - n ELSE n

Sign(n) == IF n < 0 THEN 0 - 1 ELSE IF n > 0 THEN 1 ELSE 0

RECURSIVE Gcd(_, _)
Gcd(a, b) == IF b = 0 THEN a ELSE Gcd(b, a % b)

Rat(n, d) ==
    IF d = 0 THEN [num |-> Sign(n), den |-> 0]
    ELSE LET k == Gcd(Abs(n), d) IN [num |-> n \div k, den |-> d \div k]

IsNanRat(x) == x.den = 0 /\ x.num = 0

\* x < c and x > c for an integer c (every comparison with nan is false)
RatLess(x, c) == IF x.den = 0 THEN x.num < 0 ELSE x.num < c * x.den

RatGreater(x, c) == IF x.den = 0 THEN x.num > 0 ELSE x.num > c * x.den

RatAdd(x, y) ==
    IF x.den = 0 \/ y.den = 0
    THEN IF IsNanRat(x) \/ IsNanRat(y) THEN Rat(0, 0)
         ELSE IF x.den = 0 /\ y.den = 0
              THEN (IF x.num = y.num THEN x ELSE Rat(0, 0))
              ELSE (IF x.den = 0 THEN x ELSE y)
    ELSE LET k == Gcd(x.den, y.den)
         IN  Rat(x.num * (y.den \div k) + y.num * (x.den \div k), x.den * (y.den \div k))

RECURSIVE RatSum(_)
RatSum(s) == IF s = <<>> THEN Rat(0, 1) ELSE RatAdd(Head(s), RatSum(Tail(s)))

\* np.mean of a non-empty list of percent changes
RatMean(s) ==
    LET t == RatSum(s)
    IN  IF t.den = 0 THEN t ELSE Rat(t.num, t.den * Len(s))

\* n / d to the nearest integer, a tie to the even one (n >= 0, d > 0)
RoundDiv(n, d) ==
    LET q == n \div d
        r == n % d
    IN  IF 2 * r > d \/ (2 * r = d /\ q % 2 = 1) THEN q + 1 ELSE q

\* the digits of q with its last p digits after the point
FixedText(q, p) == IntToText(q \div Pow10(p)) \o <<".">> \o Padded(q % Pow10(p), p)

\* f"{v:.pf}" of an RMSE value (p <= 5)
FormatValue(v, p) == FixedText(RoundDiv(v, Pow10(5 - p)), p)

\* f"{x:+.pf}" of a percent change
FormatPct(x, p) ==
    IF x.den = 0
    THEN (IF x.num < 0 THEN <<"-">> ELSE <<"+">>)
         \o (IF x.num = 0 THEN <<"n","a","n">> ELSE <<"i","n","f">>)
    ELSE LET a == Abs(x.num)
             q == (a \div x.den) * Pow10(p) + RoundDiv((a % x.den) * Pow10(p), x.den)
         IN  (IF x.num < 0 THEN <<"-">> ELSE <<"+">>) \o FixedText(q, p)

---------------------------------------------------------------------------
(* Reporter: reading the CSV, the keys, the pivot *)

\* one cell as pd.read_csv types it: the name column stays text, any other
\* column is numeric and its empty cell is NaN
CellValue(col, text) ==
    IF col = T_name THEN text
    ELSE IF text = <<>> THEN NaN
    ELSE float(text).val

\* pd.read_csv(csv_path): each row a function from column name to value
read_csv(file) ==
    [columns |-> file.columns,
     rows |-> [k \in DOMAIN file.rows |->
                 [c \in Range(file.columns) |->
                    CellValue(c, file.rows[k][IndexOf(file.columns, c)])]]]

\* line 13
ReadCsv ==
    /\ pc \in {"extractor done", "extractor failed", "reporter start"}
    /\ IF csv.exists
       THEN /\ rdf' = read_csv(csv)
            /\ pc' = "parse names"
            /\ err' = err
       ELSE /\ rdf' = rdf
            /\ pc' = "reporter failed"
            /\ err' = [err EXCEPT !.reporter = "FileNotFoundError"]
    /\ UNCHANGED <<fs, csv, stdout, pivot_df, sequences, g, files, pct_changes,
                   tables_list, index_html>>
    /\ UNCHANGED extractor_vars

\* df[run_cols].median(axis=1) of one row: the median of its non-NaN runs
RowMedian(row, run_cols) ==
    LET present == SelectSeq([k \in DOMAIN run_cols |-> row[run_cols[k]]], notna)
    IN  IF present = <<>> THEN NaN ELSE np_median(present)

\* lines 42-48: zip(*...) of no rows yields nothing to unpack into the two
\* columns, and line 42 raises
ParseNames ==
    /\ pc = "parse names"
    /\ IF rdf.rows = <<>>
       THEN /\ pc' = "reporter failed"
            /\ err' = [err EXCEPT !.reporter = "ValueError"]
            /\ rdf' = rdf
       ELSE /\ LET run_cols == SelectSeq(rdf.columns, LAMBDA c : startswith(c, T_run_))
                   has_median == T_rmse_median \in Range(rdf.columns)
                   keyed(row) == row @@ (T_sequence :> parse_name(row[T_name])[1])
                                     @@ (T_variant :> parse_name(row[T_name])[2])
                   full(row) == IF has_median THEN keyed(row)
                                ELSE keyed(row) @@ (T_rmse_median :> RowMedian(row, run_cols))
               IN  rdf' = [columns |-> rdf.columns \o <<T_sequence, T_variant>>
                                       \o (IF has_median THEN <<>> ELSE <<T_rmse_median>>),
                           rows |-> [k \in DOMAIN rdf.rows |-> full(rdf.rows[k])]]
            /\ pc' = "pivot"
            /\ err' = err
    /\ UNCHANGED <<fs, csv, stdout, pivot_df, sequences, g, files, pct_changes,
                   tables_list, index_html>>
    /\ UNCHANGED extractor_vars

\* the rows whose name matched a marker
Keyed(rows) == SelectSeq(rows, LAMBDA row : row[T_sequence] # None)

\* df.pivot(index='sequence', columns='variant', values='rmse_median') of
\* rows with distinct keys
pivot(rows) ==
    LET idx == SortedStrings({rows[k][T_sequence] : k \in DOMAIN rows})
        cols == SortedStrings({rows[k][T_variant] : k \in DOMAIN rows})
        at(s, c) == {k \in DOMAIN rows : rows[k][T_sequence] = s /\ rows[k][T_variant] = c}
    IN  [index |-> idx,
         columns |-> cols,
         cell |-> [sc \in Range(idx) \X Range(cols) |->
                     IF at(sc[1], sc[2]) = {} THEN NaN
                     ELSE rows[CHOOSE k \in at(sc[1], sc[2]) : TRUE][T_rmse_median]]]

DuplicateKeys(rows) ==
    \E j, k \in DOMAIN rows :
        j # k /\ rows[j][T_sequence] = rows[k][T_sequence]
              /\ rows[j][T_variant] = rows[k][T_variant]

\* lines 54-57 and 327-328, every name matched and no key twice
Pivot ==
    /\ pc = "pivot"
    /\ Keyed(rdf.rows) = rdf.rows
    /\ ~DuplicateKeys(rdf.rows)
    /\ pivot_df' = pivot(rdf.rows)
    /\ sequences' = pivot(rdf.rows).index
    /\ g' = 1
    /\ tables_list' = <<>>
    /\ pc' = "tables"
    /\ UNCHANGED <<fs, err, csv, stdout, rdf, files, pct_changes, index_html>>
    /\ UNCHANGED extractor_vars

\* line 54, two rows with one key: pivot raises "Index contains duplicate
\* entries, cannot reshape"
PivotDuplicate ==
    /\ pc = "pivot"
    /\ DuplicateKeys(rdf.rows)
    /\ pc' = "reporter failed"
    /\ err' = [err EXCEPT !.reporter = "ValueError"]
    /\ UNCHANGED <<fs, csv, stdout>>
    /\ UNCHANGED reporter_vars
    /\ UNCHANGED extractor_vars

\* lines 54-57, one row whose name matched no marker (its keys are None):
\* what pandas does with a missing key depends on its version.  It leaves
\* the row out of the pivot ...
PivotUnmatchedDropped ==
    /\ pc = "pivot"
    /\ Keyed(rdf.rows) # rdf.rows
    /\ ~DuplicateKeys(rdf.rows)
    /\ pivot_df' = pivot(Keyed(rdf.rows))
    /\ sequences' = pivot(Keyed(rdf.rows)).index
    /\ g' = 1
    /\ tables_list' = <<>>
    /\ pc' = "tables"
    /\ UNCHANGED <<fs, err, csv, stdout, rdf, files, pct_changes, index_html>>
    /\ UNCHANGED extractor_vars

\* ... or it keeps a NaN label in the index, and sorted() of line 57 raises
\* on comparing it with a string
PivotUnmatchedRaises ==
    /\ pc = "pivot"
    /\ Keyed(rdf.rows) # rdf.rows
    /\ ~DuplicateKeys(rdf.rows)
    /\ pc' = "reporter failed"
    /\ err' = [err EXCEPT !.reporter = "TypeError"]
    /\ UNCHANGED <<fs, csv, stdout>>
    /\ UNCHANGED reporter_vars
    /\ UNCHANGED extractor_vars

---------------------------------------------------------------------------
(* generate_table_html.  A page is [title, header, body]: header the <th>   *)
(* texts, body the <tr> of <tbody>, each the sequence of its <td>.  A <td>  *)
(* is [kind, class, text, pct_class, pct]; pct is the text inside the       *)
(* <span>, empty when the cell has no <span>.                               *)

T_Sequence == <<"S","e","q","u","e","n","c","e">>
T_AvgLabel == <<"A","v","g"," ","%"," ","C","h","a","n","g","e"," ","v","s"," ","B","a","s","e">>
T_daac_ == <<"d","a","a","c"," ">>

\* str.replace(old, new)
RECURSIVE replace(_, _, _)
replace(t, old, new) ==
    IF t = <<>> THEN <<>>
    ELSE IF startswith(t, old) THEN new \o replace(SubSeq(t, Len(old) + 1, Len(t)), old, new)
    ELSE <<Head(t)>> \o replace(Tail(t), old, new)

\* str.title(): a letter after a non-letter in upper case, any other in lower case
title(t) ==
    [k \in DOMAIN t |-> IF k = 1 \/ ~IsAlpha(t[k - 1]) THEN Upper(t[k]) ELSE Lower(t[k])]

\* line 177
display_name(col) == title(replace(replace(col, <<"_">>, <<" ">>), T_daac_, <<>>))

\* line 68
available(columns) == SelectSeq(columns, LAMBDA c : c \in Range(pivot_df.columns))

\* lines 189-192 (seq and col are always labels of the pivot)
row_value(seq, col) == pivot_df.cell[<<seq, col>>]

\* line 208 gone wrong: the threshold itself not an outlier
is_outlier_above(v) == v > OUTLIER_THRESHOLD

\* x is an outlier (line 208)
is_outlier(v) == v >= OUTLIER_THRESHOLD

\* lines 195-196: min(valid_values), NaN for None
min_val(seq, cols) ==
    LET valid_values == SelectSeq([k \in DOMAIN cols |-> row_value(seq, cols[k])],
                                  LAMBDA v : notna(v) /\ v < OUTLIER_THRESHOLD)
    IN  IF valid_values = <<>> THEN NaN ELSE np_min(valid_values)

\* line 201 gone wrong: row_values.get('base', 0.0)
baseline_val_zero(seq, cols) == IF C_base \in Range(cols) THEN row_value(seq, C_base) ELSE 0

\* line 201: row_values.get('base', np.nan)
baseline_val(seq, cols) == IF C_base \in Range(cols) THEN row_value(seq, C_base) ELSE NaN

\* line 212: abs(val - min_val) < 0.0001
is_best(val, m) == m # NaN /\ Abs(val - m) < Scale \div 10000

\* line 216
has_pct(col, val, base) ==
    /\ col # C_base
    /\ notna(base)
    /\ base < OUTLIER_THRESHOLD
    /\ val < OUTLIER_THRESHOLD

\* line 217 gone wrong: the change of the baseline against the value
pct_change_reversed(val, base) == Rat((base - val) * 100, base)

\* line 217
pct_change(val, base) == Rat((val - base) * 100, base)

\* lines 220-225 gone wrong: a change of exactly 1% classified
pct_class_inclusive(x) ==
    IF ~RatGreater(x, 0 - 1) /\ ~IsNanRat(x) THEN "improvement"
    ELSE IF ~RatLess(x, 1) /\ ~IsNanRat(x) THEN "degradation"
    ELSE ""

\* lines 220-225, and line 243 for the average
pct_class(x) ==
    IF RatLess(x, 0 - 1) THEN "improvement"
    ELSE IF RatGreater(x, 1) THEN "degradation"
    ELSE ""

Td(kind, class, text, pclass, pct) ==
    [kind |-> kind, class |-> class, text |-> text, pct_class |-> pclass, pct |-> pct]

\* lines 204-229: the <td> of one column of one row
value_cell(seq, col, cols) ==
    LET val == row_value(seq, col)
        base == baseline_val(seq, cols)
    IN  IF isna(val) THEN Td("dash", "", <<"-">>, "", <<>>)
        ELSE IF is_outlier(val)
        THEN Td("outlier", "outlier", <<">">> \o FormatValue(OUTLIER_THRESHOLD, 1), "", <<>>)
        ELSE LET cell_class == IF is_best(val, min_val(seq, cols)) THEN "best" ELSE ""
             IN  IF has_pct(col, val, base)
                 THEN Td("value", cell_class, FormatValue(val, 4),
                         pct_class(pct_change(val, base)),
                         FormatPct(pct_change(val, base), 1) \o <<"%">>)
                 ELSE Td("value", cell_class, FormatValue(val, 4), "", <<>>)

\* lines 198-231: one <tr>
data_row(seq, cols) ==
    <<Td("label", "", seq, "", <<>>)>> \o [k \in DOMAIN cols |-> value_cell(seq, cols[k], cols)]

\* line 218 over the loop of line 188: what pct_changes[col] holds at the end
RECURSIVE col_changes(_, _, _)
col_changes(col, cols, seqs) ==
    IF seqs = <<>> THEN <<>>
    ELSE LET val == row_value(Head(seqs), col)
             base == baseline_val(Head(seqs), cols)
         IN  (IF notna(val) /\ ~is_outlier(val) /\ has_pct(col, val, base)
              THEN <<pct_change(val, base)>> ELSE <<>>)
             \o col_changes(col, cols, Tail(seqs))

\* line 186 and the appends of line 218: a function on the non-base columns
changes(cols) ==
    [col \in Range(cols) \ {C_base} |-> col_changes(col, cols, sequences)]

\* lines 241-246
avg_cell(col, cols) ==
    LET c == changes(cols)[col]
    IN  IF c # <<>>
        THEN Td("avg", pct_class(RatMean(c)), FormatPct(RatMean(c), 2) \o <<"%">>, "", <<>>)
        ELSE Td("dash", "", <<"-">>, "", <<>>)

\* lines 233-246: the label, the cell written for the baseline column, and
\* one cell per column that is not 'base'
avg_row(cols) ==
    LET others == SelectSeq(cols, LAMBDA c : c # C_base)
    IN  <<Td("label", "", T_AvgLabel, "", <<>>), Td("dash", "", <<"-">>, "", <<>>)>>
        \o [k \in DOMAIN others |-> avg_cell(others[k], cols)]

\* the page generate_table_html builds for the columns cols
page(ttl, cols) ==
    [title |-> ttl,
     header |-> <<T_Sequence>> \o [k \in DOMAIN cols |-> display_name(cols[k])],
     body |-> [k \in DOMAIN sequences |-> data_row(sequences[k], cols)] \o <<avg_row(cols)>>]

\* one iteration of the loop of lines 372-375: generate_table_html returns at
\* line 71 when no column is available, else writes the page at line 257;
\* line 375 then appends to tables_list
GenerateTable ==
    /\ pc = "tables"
    /\ g <= Len(tables_config)
    /\ LET config == tables_config[g]
           available_cols == available(config.columns)
       IN  /\ IF available_cols = <<>>
              THEN /\ stdout' = Append(stdout, <<"warning: no columns", <<>>>>)
                   /\ UNCHANGED <<files, pct_changes>>
              ELSE /\ files' = [f \in DOMAIN files \cup {config.filename} |->
                                  IF f = config.filename THEN page(config.title, available_cols)
                                  ELSE files[f]]
                   /\ pct_changes' = changes(available_cols)
                   /\ stdout' = Append(stdout, <<"generated", <<>>>>)
           /\ tables_list' = Append(tables_list,
                                    <<config.title, config.filename, config.description>>)
    /\ g' = g + 1
    /\ UNCHANGED <<fs, pc, err, csv, rdf, pivot_df, sequences, index_html>>
    /\ UNCHANGED extractor_vars

\* generate_index_html: one card per entry of tables
generate_index_html(tables) ==
    [exists |-> TRUE,
     cards |-> [k \in DOMAIN tables |->
                  [title |-> tables[k][1], href |-> tables[k][2], description |-> tables[k][3]]]]

\* lines 377-381
GenerateIndex ==
    /\ pc = "tables"
    /\ g > Len(tables_config)
    /\ index_html' = generate_index_html(tables_list)
    /\ stdout' = Append(stdout, <<"generated index", <<>>>>)
    /\ pc' = "reporter done"
    /\ UNCHANGED <<fs, err, csv, rdf, pivot_df, sequences, g, files, pct_changes, tables_list>>
    /\ UNCHANGED extractor_vars

---------------------------------------------------------------------------
(* The inputs *)

W_spot == <<"s","p","o","t">>
W_seq1 == <<"s","e","q","1">>
W_seq2 == <<"s","e","q","2">>
W_misc == <<"m","i","s","c">>
W_tmp == <<"t","m","p">>

\* 'a_b_c' of the words a, b, c
Name(words) == Tail(Marker(words))

\* the entries a results directory may hold: experiments of known variants,
\* two names that end in no marker, and one entry that 'spot_*' does not match
DirPool ==
    { Name(<<W_spot, W_seq1, W_base>>),
      Name(<<W_spot, W_seq1, W_daac, W_rgd, W_inv>>),
      Name(<<W_spot, W_seq2, W_daac, W_depth, W_opt, W_w100>>),
      Name(<<W_spot, W_misc>>),
      Name(<<W_spot, W_seq1>>),
      Name(<<W_tmp, W_seq1, W_base>>) }

\* "rmse 0.5200\nrmse 0.4800\n"
Content_A ==
    <<"r","m","s","e"," ","0",".","5","2","0","0","\n","r","m","s","e"," ","0",".","4","8","0","0","\n">>

\* "rmse 0.4000\n"
Content_B ==
    <<"r","m","s","e"," ","0",".","4","0","0","0","\n">>

\* "RMSE  3.0 rmse\t1 Rmse 2."
Content_C ==
    <<"R","M","S","E"," "," ","3",".","0"," ","r","m","s","e","\t","1"," ","R","m","s","e"," ","2",".">>

\* "final rmse 0.52."
Content_D ==
    <<"f","i","n","a","l"," ","r","m","s","e"," ","0",".","5","2",".">>

\* "no result"
Content_E ==
    <<"n","o"," ","r","e","s","u","l","t">>

\* "armse 10.0 rmse x rmse\n.5 rmse 1.01 RmSe 1"
Content_F ==
    <<"a","r","m","s","e"," ","1","0",".","0"," ","r","m","s","e"," ","x"," ","r","m","s","e","\n",".","5"," ","r","m","s","e"," ","1",".","0","1"," ","R","m","S","e"," ","1">>

ContentPool == {Content_A, Content_B, Content_C, Content_D, Content_E, Content_F, Missing}

\* at most this many entries in the results directory
MaxDirs == 2

\* at most this many rows in a CSV handed to the Reporter alone
MaxRows == 4

\* at most this many rows in a CSV that has no rmse_median column
MaxPlainRows == 1

NoFrame == [columns |-> <<>>, rows |-> <<>>]

NoFile == [exists |-> FALSE, columns |-> <<>>, rows |-> <<>>]

ReporterInit ==
    /\ rdf = NoFrame
    /\ pivot_df = [index |-> <<>>, columns |-> <<>>, cell |-> <<>>]
    /\ sequences = <<>>
    /\ g = 1
    /\ files = <<>>
    /\ pct_changes = <<>>
    /\ tables_list = <<>>
    /\ index_html = [exists |-> FALSE, cards |-> <<>>]

\* both scripts, one after the other, on a results directory (which may be
\* empty or not exist: glob then finds nothing); no CSV is there yet
Init ==
    /\ \E D \in SUBSET DirPool :
          /\ Cardinality(D) <= MaxDirs
          /\ fs \in [D -> ContentPool]
    /\ pc = "start"
    /\ err = [extractor |-> "none", reporter |-> "none"]
    /\ dirs = <<>>
    /\ i = 1
    /\ results = <<>>
    /\ df = NoFrame
    /\ csv = NoFile
    /\ stdout = <<>>
    /\ ReporterInit

Next ==
    \/ StartScan
    \/ ScanDir
    \/ CreateFrame
    \/ SaveCsv
    \/ ReadCsv
    \/ ParseNames
    \/ Pivot
    \/ PivotDuplicate
    \/ PivotUnmatchedDropped
    \/ PivotUnmatchedRaises
    \/ GenerateTable
    \/ GenerateIndex

Spec == Init /\ [][Next]_vars

---------------------------------------------------------------------------
(* The Reporter alone, on a CSV of the agreed layout that some earlier run  *)
(* of the Extractor (or another producer) left behind                       *)

\* the names of the CSV rows: two sequences under 'base' and other variants,
\* and the two names that end in no marker
RowNames ==
    { Name(<<W_spot, W_seq1, W_base>>),
      Name(<<W_spot, W_seq1, W_daac, W_rgd, W_inv>>),
      Name(<<W_spot, W_seq1, W_daac, W_depth, W_opt, W_w100>>),
      Name(<<W_spot, W_seq2, W_base>>),
      Name(<<W_spot, W_seq2, W_daac, W_rgd, W_inv>>),
      Name(<<W_spot, W_misc>>),
      Name(<<W_spot, W_seq1>>) }

\* the decimal w.dddd, d the four fractional digits as a number
Dec(w, d) == w * Scale + d * (Scale \div 10000)

\* the median RMSE a row of that name may carry.  Sequence 1 carries the
\* cases at the thresholds: a baseline of 0, 0.5, 6.25 or 10.0 against 0,
\* 0.4, 6.1875 (6.25 less 1%), 6.3125 (6.25 plus 1%), 9.9999 or 10.0;
\* sequence 2 a second comparison against a baseline
ValuesOf(name) ==
    CASE name = Name(<<W_spot, W_seq1, W_base>>) ->
            {Dec(0, 0), Dec(0, 5000), Dec(6, 2500), Dec(10, 0)}
      [] name = Name(<<W_spot, W_seq1, W_daac, W_rgd, W_inv>>) ->
            {Dec(0, 0), Dec(0, 4000), Dec(6, 1875), Dec(6, 3125), Dec(9, 9999), Dec(10, 0)}
      [] name = Name(<<W_spot, W_seq1, W_daac, W_depth, W_opt, W_w100>>) ->
            {Dec(0, 4000), Dec(10, 0)}
      [] name = Name(<<W_spot, W_seq2, W_base>>) ->
            {Dec(0, 5000), Dec(6, 2500)}
      [] name = Name(<<W_spot, W_seq2, W_daac, W_rgd, W_inv>>) ->
            {Dec(6, 1875), Dec(9, 9999)}
      [] OTHER -> {Dec(1, 0)}

\* every choice of a median for each name of N
RECURSIVE Medians(_)
Medians(N) ==
    IF N = {} THEN {<<>>}
    ELSE LET n == CHOOSE x \in N : TRUE
         IN  {(n :> v) @@ f : v \in ValuesOf(n), f \in Medians(N \ {n})}

\* the file without the column col
DropColumn(file, col) ==
    LET keep == {k \in DOMAIN file.columns : file.columns[k] # col}
        pick(t) == SelectSeq([k \in DOMAIN t |-> <<k, t[k]>>], LAMBDA e : e[1] \in keep)
        cells(t) == [k \in DOMAIN pick(t) |-> pick(t)[k][2]]
    IN  [exists |-> TRUE,
         columns |-> cells(file.columns),
         rows |-> [k \in DOMAIN file.rows |-> cells(file.rows[k])]]

\* the CSV of single-run experiments: median[n] is the one RMSE of n
CsvOf(median, with_median) ==
    LET names == SortedStrings(DOMAIN median)
        frame == [columns |-> base_cols \o <<T_run_ \o IntToText(1)>>,
                  rows |-> [k \in DOMAIN names |-> Row(names[k], <<median[names[k]]>>)]]
    IN  IF with_median THEN to_csv(frame) ELSE DropColumn(to_csv(frame), T_rmse_median)

InitReporter ==
    /\ \E N \in SUBSET RowNames :
          /\ Cardinality(N) <= MaxRows
          /\ \E median \in Medians(N), with_median \in BOOLEAN :
                /\ with_median \/ Cardinality(N) <= MaxPlainRows
                /\ csv = CsvOf(median, with_median)
    /\ fs = <<>>
    /\ pc = "reporter start"
    /\ err = [extractor |-> "none", reporter |-> "none"]
    /\ dirs = <<>>
    /\ i = 1
    /\ results = <<>>
    /\ df = NoFrame
    /\ stdout = <<>>
    /\ ReporterInit

NextReporter ==
    \/ ReadCsv
    \/ ParseNames
    \/ Pivot
    \/ PivotDuplicate
    \/ PivotUnmatchedDropped
    \/ PivotUnmatchedRaises
    \/ GenerateTable
    \/ GenerateIndex

SpecReporter == InitReporter /\ [][NextReporter]_vars

---------------------------------------------------------------------------
(* Properties of the Extractor *)

\* the observations of directory d: what parse_results_file returns for it
Observations(d) == parse_results_file(fs[d]).values

\* the k-th smallest of the values obs, by counting
KthSmallest(obs, k) ==
    CHOOSE x \in Range(obs) :
        /\ Cardinality({j \in DOMAIN obs : obs[j] < x}) < k
        /\ k <= Cardinality({j \in DOMAIN obs : obs[j] <= x})

\* twice the standard median: the middle value counted twice for an odd
\* count, the sum of the two middle values for an even one
TwiceMedian(obs) ==
    LET n == Len(obs)
    IN  IF n % 2 = 1 THEN 2 * KthSmallest(obs, (n + 1) \div 2)
        ELSE KthSmallest(obs, n \div 2) + KthSmallest(obs, n \div 2 + 1)

RowMatches(row, obs) ==
    /\ row.num_runs = Len(obs)
    /\ row.rmse_last = obs[Len(obs)]
    /\ \A k \in 1..Len(obs) : row.runs[k] = obs[k]
    /\ 2 * row.rmse_median = TwiceMedian(obs)

\* C1: every directory scanned so far whose results file yields N >= 1
\* observations has one row in results, with num_runs = N, rmse_last the N-th
\* observation, run_k the k-th observation for every k, and rmse_median the
\* standard median; in the frame made of the rows, num_runs is the number of
\* run columns that are not empty
C1_RowStatistics ==
    /\ \A k \in 1..(i - 1) :
          k <= Len(dirs) /\ Observations(dirs[k]) # <<>> =>
             /\ Cardinality({j \in DOMAIN results : results[j].name = dirs[k]}) = 1
             /\ \A j \in DOMAIN results :
                   results[j].name = dirs[k] => RowMatches(results[j], Observations(dirs[k]))
    /\ \A j \in DOMAIN df.rows :
          /\ df.rows[j].num_runs
                = Cardinality({k \in DOMAIN df.rows[j].runs : df.rows[j].runs[k] # NaN})
          /\ df.rows[j].rmse_last = df.rows[j].runs[df.rows[j].num_runs]

\* C1 witness: the scan ended with a row of three runs and a row of four runs
\* whose median is the mean of the two middle ones and is no run itself
C1_Witness ==
    /\ pc = "extractor done"
    /\ \E j \in DOMAIN results : results[j].num_runs = 3
    /\ \E j \in DOMAIN results :
          /\ results[j].num_runs = 4
          /\ \A k \in 1..4 : results[j].runs[k] # results[j].rmse_median

\* C7: no content of a results file aborts the run: the scan never ends in
\* an exception raised on a value it matched
C7_ContentNeverAborts == err.extractor # "ValueError"

\* no entry that 'spot_*' matches has a results file with an RMSE match
NoObservations ==
    \A d \in DOMAIN fs :
        startswith(d, T_spot_) => fs[d] = Missing \/ findall(fs[d], 1) = <<>>

\* C6: with no qualifying experiment with observations, the Extractor ends
\* without an exception leaving a CSV with no data rows, and the Reporter
\* ends without an exception with every group skipped
C6_EmptyRunCompletes ==
    NoObservations =>
        /\ err.extractor = "none"
        /\ err.reporter = "none"
        /\ pc = "extractor done" => csv.exists /\ csv.rows = <<>>
        /\ pc = "reporter done" => files = <<>>

---------------------------------------------------------------------------
(* Properties of parse_name *)

\* m is a suffix of name: name is some prefix followed by m
IsSuffix(m, name) == \E k \in 0..Len(name) : SubSeq(name, k + 1, Len(name)) = m

\* the rows of the Reporter's frame carry their keys
KeysAssigned == T_sequence \in Range(rdf.columns)

\* C2: the variant of every name is the longest configured label that is a
\* suffix of the name, the sequence is the name without exactly that suffix,
\* and a name ending in no configured marker has the keys (None, None)
C2_LongestSuffix ==
    KeysAssigned =>
        \A r \in DOMAIN rdf.rows :
            LET name == rdf.rows[r][T_name]
                seq == rdf.rows[r][T_sequence]
                variant == rdf.rows[r][T_variant]
                ending == {m \in Range(variant_markers) : IsSuffix(m, name)}
            IN  IF ending = {} THEN seq = None /\ variant = None
                ELSE \E m \in ending :
                        /\ \A other \in ending : Len(other) <= Len(m)
                        /\ <<"_">> \o variant = m
                        /\ seq \o m = name

\* C2 witness: a name ending in _daac_depth_opt_w100 got that variant, and a
\* name ending in no marker got None
C2_Witness ==
    /\ KeysAssigned
    /\ \E r \in DOMAIN rdf.rows :
          /\ rdf.rows[r][T_name] = Name(<<W_spot, W_seq1, W_daac, W_depth, W_opt, W_w100>>)
          /\ rdf.rows[r][T_variant] = Name(<<W_daac, W_depth, W_opt, W_w100>>)
          /\ rdf.rows[r][T_sequence] = Name(<<W_spot, W_seq1>>)
    /\ \E r \in DOMAIN rdf.rows :
          /\ rdf.rows[r][T_name] = Name(<<W_spot, W_misc>>)
          /\ rdf.rows[r][T_variant] = None

---------------------------------------------------------------------------
(* Properties of the pages.  Page f was generated from group Group(f); its  *)
(* columns are those of the group that the pivot has, in the group's order; *)
(* the <td> of column number c in row number r is body[r][c + 1].           *)

Group(f) == CHOOSE config \in Range(tables_config) : config.filename = f

PageCols(f) == SelectSeq(Group(f).columns, LAMBDA c : c \in Range(pivot_df.columns))

\* the pivoted value of sequence number r under column number c of page f
PageValue(f, r, c) == pivot_df.cell[<<sequences[r], PageCols(f)[c]>>]

\* the baseline of sequence number r in page f: NaN without a 'base' column
PageBase(f, r) ==
    IF \E c \in DOMAIN PageCols(f) : PageCols(f)[c] = Name(<<W_base>>)
    THEN pivot_df.cell[<<sequences[r], Name(<<W_base>>)>>]
    ELSE NaN

Present(v) == v # NaN

Outlier(v) == Present(v) /\ v >= 10 * Scale

Usable(v) == Present(v) /\ ~Outlier(v)

\* sequence r of page f has a valid comparison in column c
Compared(f, r, c) ==
    /\ PageCols(f)[c] # Name(<<W_base>>)
    /\ Usable(PageBase(f, r))
    /\ Usable(PageValue(f, r, c))

\* the page written by the latest call of generate_table_html, if it wrote one
LatestPage == IF g > 1 THEN tables_config[g - 1].filename ELSE ""

\* C3: a present value is rendered as an outlier exactly when it is >= 10.0;
\* an outlier cell is never best in row and has no percent change; a row
\* whose baseline is an outlier has no percent change at all; and a column's
\* accumulated percent changes number the rows with a valid comparison, so
\* no outlier adds to them
C3_OutlierExcluded ==
    /\ \A f \in DOMAIN files : \A r \in DOMAIN sequences : \A c \in DOMAIN PageCols(f) :
          LET td == files[f].body[r][c + 1]
              v == PageValue(f, r, c)
          IN  /\ Present(v) => (td.kind = "outlier" <=> v >= 10 * Scale)
              /\ td.kind = "outlier" => td.class # "best" /\ td.pct = <<>>
              /\ Outlier(PageBase(f, r)) => td.pct = <<>>
    /\ LatestPage \in DOMAIN files =>
          \A c \in DOMAIN PageCols(LatestPage) :
              PageCols(LatestPage)[c] # Name(<<W_base>>) =>
                 Len(pct_changes[PageCols(LatestPage)[c]])
                    = Cardinality({r \in DOMAIN sequences : Compared(LatestPage, r, c)})

\* C3 witness: a page has a row whose baseline is exactly 10.0, rendered as
\* an outlier, beside a value of 9.9999 rendered as a value
C3_Witness ==
    \E f \in DOMAIN files : \E r \in DOMAIN sequences : \E c \in DOMAIN PageCols(f) :
        /\ PageBase(f, r) = 10 * Scale
        /\ PageValue(f, r, c) = 10 * Scale - Scale \div 10000
        /\ files[f].body[r][c + 1].kind = "value"
        /\ \E b \in DOMAIN PageCols(f) : files[f].body[r][b + 1].kind = "outlier"

\* the class of the change from baseline b to value v when a change of
\* exactly 1% counts (Inclusive) or does not count (Strict); b = 0 divides
\* to +inf for v > 0 and to nan, which compares false, for v = 0
InclusiveClass(v, b) ==
    IF b = 0 THEN (IF v > 0 THEN "degradation" ELSE "")
    ELSE IF (v - b) * 100 <= 0 - b THEN "improvement"
    ELSE IF (v - b) * 100 >= b THEN "degradation"
    ELSE ""

StrictClass(v, b) ==
    IF b = 0 THEN (IF v > 0 THEN "degradation" ELSE "")
    ELSE IF (v - b) * 100 < 0 - b THEN "improvement"
    ELSE IF (v - b) * 100 > b THEN "degradation"
    ELSE ""

\* x is the quotient (v - b) * 100 / b: its denominator divides b, and the
\* numerator scaled to the denominator b is (v - b) * 100
IsPctChange(x, v, b) ==
    IF b = 0 THEN x.den = 0 /\ x.num = (IF v > 0 THEN 1 ELSE 0)
    ELSE x.den > 0 /\ b % x.den = 0 /\ x.num * (b \div x.den) = (v - b) * 100

\* the sequences of page f with a valid comparison in column c, in row order
ComparedRows(f, c) ==
    SelectSeq([r \in DOMAIN sequences |-> r], LAMBDA r : Compared(f, r, c))

\* the accumulated percent changes of column c of the latest page are the
\* quotients of exactly the rows with a valid comparison, in row order
ChangesAreQuotients ==
    LatestPage \in DOMAIN files =>
        \A c \in DOMAIN PageCols(LatestPage) :
            PageCols(LatestPage)[c] # Name(<<W_base>>) =>
               LET got == pct_changes[PageCols(LatestPage)[c]]
                   rows == ComparedRows(LatestPage, c)
               IN  /\ Len(got) = Len(rows)
                   /\ \A k \in DOMAIN rows :
                         IsPctChange(got[k], PageValue(LatestPage, rows[k], c),
                                     PageBase(LatestPage, rows[k]))

\* C4 as stated: every valid comparison has the percent change
\* (value - baseline) / baseline * 100, an improvement if it is <= -1, a
\* degradation if it is >= +1, neutral otherwise
C4_InclusiveThresholds ==
    /\ ChangesAreQuotients
    /\ \A f \in DOMAIN files : \A r \in DOMAIN sequences : \A c \in DOMAIN PageCols(f) :
          Compared(f, r, c) =>
             /\ files[f].body[r][c + 1].pct # <<>>
             /\ files[f].body[r][c + 1].pct_class
                   = InclusiveClass(PageValue(f, r, c), PageBase(f, r))

\* C4 amended: every valid comparison has the percent change
\* (value - baseline) / baseline * 100, an improvement if it is < -1, a
\* degradation if it is > +1, neutral otherwise: a change of exactly -1% or
\* +1% is neutral
C4_StrictThresholds ==
    /\ ChangesAreQuotients
    /\ \A f \in DOMAIN files : \A r \in DOMAIN sequences : \A c \in DOMAIN PageCols(f) :
          Compared(f, r, c) =>
             /\ files[f].body[r][c + 1].pct # <<>>
             /\ files[f].body[r][c + 1].pct_class
                   = StrictClass(PageValue(f, r, c), PageBase(f, r))

\* C4 witness: a page shows 6.1875 against the baseline 6.25 as -1.0% with no
\* class, and a page shows 0.4 against the baseline 0.5 as an improvement
C4_Witness ==
    /\ \E f \in DOMAIN files : \E r \in DOMAIN sequences : \E c \in DOMAIN PageCols(f) :
          /\ PageBase(f, r) = Dec(6, 2500)
          /\ PageValue(f, r, c) = Dec(6, 1875)
          /\ files[f].body[r][c + 1].pct = <<"-","1",".","0","%">>
          /\ files[f].body[r][c + 1].pct_class = ""
    /\ \E f \in DOMAIN files : \E r \in DOMAIN sequences : \E c \in DOMAIN PageCols(f) :
          /\ PageBase(f, r) = Dec(0, 5000)
          /\ PageValue(f, r, c) = Dec(0, 4000)
          /\ files[f].body[r][c + 1].pct_class = "improvement"

\* C5: once the index is written it lists exactly the groups whose page was
\* written: a skipped group has no card
C5_IndexListsGenerated ==
    index_html.exists =>
        {index_html.cards[k].href : k \in DOMAIN index_html.cards} = DOMAIN files

\* C10: every row of the body of every page, the summary row included, has
\* one cell per header column
C10_RowWidth ==
    \A f \in DOMAIN files : \A r \in DOMAIN files[f].body :
        Len(files[f].body[r]) = Len(files[f].header)

\* the smallest usable value of sequence number r in page f
RowMin(f, r) ==
    LET usable == {v \in {PageValue(f, r, c) : c \in DOMAIN PageCols(f)} : Usable(v)}
    IN  CHOOSE m \in usable : \A v \in usable : m <= v

\* the <td> of the summary row of page f for its column number c (not
\* 'base'): after the label and the baseline cell, in column order
AvgCell(f, c) ==
    LET before == {b \in 1..(c - 1) : PageCols(f)[b] # Name(<<W_base>>)}
    IN  files[f].body[Len(sequences) + 1][Cardinality(before) + 3]

\* C9: a sequence with no 'base' value has each usable value rendered as the
\* value alone, with no percent change, its minimum marked best; the percent
\* changes a column accumulates are those of exactly the rows with a valid
\* comparison, and the summary row shows their arithmetic mean
C9_NoBaselineRow ==
    /\ \A f \in DOMAIN files : \A r \in DOMAIN sequences :
          ~Present(PageBase(f, r)) =>
             \A c \in DOMAIN PageCols(f) :
                 LET td == files[f].body[r][c + 1]
                     v == PageValue(f, r, c)
                 IN  Usable(v) =>
                        /\ td.kind = "value"
                        /\ td.text = FormatValue(v, 4)
                        /\ td.pct = <<>>
                        /\ v = RowMin(f, r) => td.class = "best"
    /\ ChangesAreQuotients
    /\ LatestPage \in DOMAIN files =>
          \A c \in DOMAIN PageCols(LatestPage) :
              PageCols(LatestPage)[c] # Name(<<W_base>>) =>
                 LET got == pct_changes[PageCols(LatestPage)[c]]
                     td == AvgCell(LatestPage, c)
                 IN  IF ComparedRows(LatestPage, c) = <<>> THEN td.kind = "dash"
                     ELSE /\ td.kind = "avg"
                          /\ td.text = FormatPct(RatMean(got), 2) \o <<"%">>

\* C9 witness: the latest page has a 'base' column, a sequence without a
\* 'base' value whose value in some column is usable, and another sequence
\* with a valid comparison in that column
C9_Witness ==
    /\ LatestPage \in DOMAIN files
    /\ \E r, q \in DOMAIN sequences : \E c \in DOMAIN PageCols(LatestPage) :
          /\ \E b \in DOMAIN PageCols(LatestPage) : PageCols(LatestPage)[b] = Name(<<W_base>>)
          /\ ~Present(PageBase(LatestPage, r))
          /\ Usable(PageValue(LatestPage, r, c))
          /\ Compared(LatestPage, q, c)

---------------------------------------------------------------------------
(* The end-to-end scenario *)

\* spot_seq1_base holds "rmse 0.5200\nrmse 0.4800\n" and
\* spot_seq1_daac_rgd_inv holds "rmse 0.4000\n"
Scenario ==
    /\ DOMAIN fs = {Name(<<W_spot, W_seq1, W_base>>), Name(<<W_spot, W_seq1, W_daac, W_rgd, W_inv>>)}
    /\ fs[Name(<<W_spot, W_seq1, W_base>>)] = Content_A
    /\ fs[Name(<<W_spot, W_seq1, W_daac, W_rgd, W_inv>>)] = Content_B

\* the number in cell col of CSV row number r
CsvNumber(r, col) == float(csv.rows[r][IndexOf(csv.columns, col)]).val

\* the scenario ends with a CSV of two rows with the medians 0.50 and 0.40
\* and a "Baseline vs RGD" page with a row labelled label showing base as
\* 0.5000 and daac_rgd_inv as 0.4000 (-20.0%), an improvement, best in row
ScenarioReport(label) ==
    Scenario /\ pc = "reporter done" =>
        /\ Len(csv.rows) = 2
        /\ CsvNumber(1, T_rmse_median) = Dec(0, 5000)
        /\ CsvNumber(2, T_rmse_median) = Dec(0, 4000)
        /\ "baseline_vs_rgd.html" \in DOMAIN files
        /\ LET pg == files["baseline_vs_rgd.html"]
           IN  /\ pg.title = "Baseline vs RGD (Inverse + Metric)"
               /\ pg.header = <<T_Sequence, <<"B","a","s","e">>, <<"R","g","d"," ","I","n","v">>>>
               /\ \E r \in 1..(Len(pg.body) - 1) :
                     /\ pg.body[r][1].text = label
                     /\ pg.body[r][2].text = <<"0",".","5","0","0","0">>
                     /\ pg.body[r][3].text = <<"0",".","4","0","0","0">>
                     /\ pg.body[r][3].pct = <<"-","2","0",".","0","%">>
                     /\ pg.body[r][3].pct_class = "improvement"
                     /\ pg.body[r][3].class = "best"

\* C8 as stated: in the scenario the row of the report is labelled seq1
C8_LabelSeq1 == ScenarioReport(Name(<<W_seq1>>))

\* C8 amended: in the scenario the row of the report is labelled spot_seq1,
\* the directory name without its variant suffix
C8_LabelSpotSeq1 == ScenarioReport(Name(<<W_spot, W_seq1>>))

\* C8 witness: both scripts ran to their end on the scenario
C8_Witness == Scenario /\ pc = "reporter done"

=============================================================================
